---- MODULE Spec2Model ----
(***************************************************************************)
(* ExpediteAI: a directory watch hands new screenshot files to a pipeline  *)
(* coordinator, which sends each to a vision backend and posts the answer  *)
(* (or a billing warning) to a transient overlay window.                   *)
(*                                                                         *)
(* Python strings that the code inspects (file names, error messages,      *)
(* exception type names, answers) are sequences of one-character strings,  *)
(* so that lower(), strip(), Path.suffix and the `in` substring test are   *)
(* computed character by character as the code computes them.              *)
(***************************************************************************)
EXTENDS Integers, Sequences, FiniteSets, TLC

\* Python's None. Every optional string of the program is a sequence here, so
\* None is a sequence too: one that no sequence of single characters equals.
None == <<"None">>

\* `not x` for an Optional[str]: None and the empty string are both falsy.
Falsy(x) == x = None \/ x = <<>>

(* ---------------------------------------------------------------------- *)
(* str.lower(), str.strip(), `sub in s`, str + str                        *)
(* ---------------------------------------------------------------------- *)
UpperToLower ==
    ("A" :> "a") @@ ("B" :> "b") @@ ("C" :> "c") @@ ("D" :> "d") @@ ("E" :> "e") @@ ("F" :> "f") @@
    ("G" :> "g") @@ ("H" :> "h") @@ ("I" :> "i") @@ ("J" :> "j") @@ ("K" :> "k") @@ ("L" :> "l") @@
    ("M" :> "m") @@ ("N" :> "n") @@ ("O" :> "o") @@ ("P" :> "p") @@ ("Q" :> "q") @@ ("R" :> "r") @@
    ("S" :> "s") @@ ("T" :> "t") @@ ("U" :> "u") @@ ("V" :> "v") @@ ("W" :> "w") @@ ("X" :> "x") @@
    ("Y" :> "y") @@ ("Z" :> "z")

LowerChar(c) == IF c \in DOMAIN UpperToLower THEN UpperToLower[c] ELSE c

RECURSIVE Lower(_)
Lower(s) == IF s = <<>> THEN <<>> ELSE <<LowerChar(Head(s))>> \o Lower(Tail(s))

Whitespace == {" ", "\n", "\t"}

RECURSIVE LStrip(_)
LStrip(s) == IF s # <<>> /\ Head(s) \in Whitespace THEN LStrip(Tail(s)) ELSE s

RECURSIVE RStrip(_)
RStrip(s) ==
    IF s # <<>> /\ s[Len(s)] \in Whitespace
    THEN RStrip(SubSeq(s, 1, Len(s) - 1))
    ELSE s

Strip(s) == RStrip(LStrip(s))

Contains(s, sub) ==
    \E i \in 0..(Len(s) - Len(sub)) : \A j \in 1..Len(sub) : s[i + j] = sub[j]

AnyKeyword(keywords, s) == \E keyword \in keywords : Contains(s, keyword)

(* ---------------------------------------------------------------------- *)
(* Path.suffix and the image allow-list                                   *)
(* ---------------------------------------------------------------------- *)
ExtPng == <<".", "p", "n", "g">>
ExtJpg == <<".", "j", "p", "g">>
ExtJpeg == <<".", "j", "p", "e", "g">>
ExtBmp == <<".", "b", "m", "p">>
ExtGif == <<".", "g", "i", "f">>
ExtWebp == <<".", "w", "e", "b", "p">>

image_extensions == {ExtPng, ExtJpg, ExtJpeg, ExtBmp, ExtGif, ExtWebp}

\* The index of the last "." of name, 0 when it has none (str.rfind, 1-based).
RFindDot(name) ==
    IF \E i \in 1..Len(name) : name[i] = "."
    THEN CHOOSE i \in 1..Len(name) :
            /\ name[i] = "."
            /\ \A j \in (i + 1)..Len(name) : name[j] # "."
    ELSE 0

\* pathlib: the final component's last dot-suffix; a leading dot (".png") or a
\* trailing dot gives no suffix.
Suffix(name) ==
    LET i == RFindDot(name)
    IN  IF 1 < i /\ i < Len(name) THEN SubSeq(name, i, Len(name)) ELSE <<>>

IsImageName(name) == Lower(Suffix(name)) \in image_extensions

SCREENSHOT_DIR == <<"C", ":", "\\", "U", "s", "e", "r", "s", "\\", "j", "a", "n", "p", "a", "\\", "P", "i", "c", "t", "u", "r", "e", "s", "\\", "S", "c", "r", "e", "e", "n", "s", "h", "o", "t", "s">>

\* str(Path(event.src_path)): the watched directory, a separator, the name.
PathOf(name) == SCREENSHOT_DIR \o <<"\\">> \o name

(* ---------------------------------------------------------------------- *)
(* Vision backends: failure classification                                *)
(* ---------------------------------------------------------------------- *)
KwQuota == <<"q", "u", "o", "t", "a">>
KwBilling == <<"b", "i", "l", "l", "i", "n", "g">>
KwPayment == <<"p", "a", "y", "m", "e", "n", "t">>
KwCredit == <<"c", "r", "e", "d", "i", "t">>
KwInsufficient == <<"i", "n", "s", "u", "f", "f", "i", "c", "i", "e", "n", "t">>
KwExceeded == <<"e", "x", "c", "e", "e", "d", "e", "d">>
KwLimit == <<"l", "i", "m", "i", "t">>
KwSubscription == <<"s", "u", "b", "s", "c", "r", "i", "p", "t", "i", "o", "n">>
KwAccount == <<"a", "c", "c", "o", "u", "n", "t">>
KwRateLimit == <<"r", "a", "t", "e", "_", "l", "i", "m", "i", "t">>
KwInsufficientQuota == <<"i", "n", "s", "u", "f", "f", "i", "c", "i", "e", "n", "t", "_", "q", "u", "o", "t", "a">>
Kw402 == <<"4", "0", "2">>
Kw429 == <<"4", "2", "9">>

Providers == {"gemini", "openai", "anthropic"}

GeminiKeywords ==
    {KwQuota, KwBilling, KwPayment, KwCredit, KwInsufficient, KwExceeded,
     KwLimit, KwSubscription, KwAccount}

OpenAIKeywords ==
    {KwInsufficientQuota, KwBilling, KwPayment, KwCredit, KwInsufficient,
     KwExceeded, KwLimit, KwSubscription, KwAccount, KwRateLimit, KwQuota,
     Kw402, Kw429}

AnthropicKeywords ==
    {KwQuota, KwBilling, KwPayment, KwCredit, KwInsufficient, KwExceeded,
     KwLimit, KwSubscription, KwAccount, KwRateLimit}

\* The warning texts are never inspected by the program, only displayed: each
\* is kept whole, as a one-element sequence.
GeminiBillingText == <<"Low credits/billing issue detected. Please check your Gemini API billing.">>
OpenAIBillingText == <<"Low credits/billing issue detected. Please check your OpenAI API billing.">>
AnthropicBillingText == <<"Low credits/billing issue detected. Please check your Anthropic API billing.">>

BillingTexts == {GeminiBillingText, OpenAIBillingText, AnthropicBillingText}

\* An exception e: str(e), type(e).__name__, and the optional attributes
\* status_code and code, each the set of the attribute's value: {} when the
\* exception has no such attribute (hasattr is false).
Exc(msg, type_name, status_code, code) ==
    [msg |-> msg, type_name |-> type_name, status_code |-> status_code, code |-> code]

Absent == {}

OpenErrPrefix == <<"[", "E", "r", "r", "n", "o", " ", "2", "]", " ", "N", "o", " ", "s", "u", "c", "h", " ", "f", "i", "l", "e", " ", "o", "r", " ", "d", "i", "r", "e", "c", "t", "o", "r", "y", ":", " ", "'">>

\* What Image.open(image_path) raises for a file that cannot be opened: the
\* message of an OSError names the file.
OpenError(image_path) ==
    Exc(OpenErrPrefix \o image_path \o <<"'">>, <<"F", "i", "l", "e", "N", "o", "t", "F", "o", "u", "n", "d", "E", "r", "r", "o", "r">>, Absent, Absent)

\* What one call of the backend meets: the image cannot be opened, the vendor
\* answers with a text, or the vendor call (or reading its response) raises.
Raised(image_path, outcome) ==
    IF outcome.kind = "open_error" THEN OpenError(image_path) ELSE outcome.exc

GeminiProcessImage(image_path, outcome) ==
    IF outcome.kind = "text"
    THEN <<Strip(outcome.text), None>>
    ELSE LET e == Raised(image_path, outcome)
             error_str == Lower(e.msg)
         IN  IF AnyKeyword(GeminiKeywords, error_str)
             THEN <<None, GeminiBillingText>>
             ELSE <<None, None>>

\* error_code, as the set of its value ({} for None).
OpenAIErrorCode(e) ==
    IF e.status_code # Absent THEN e.status_code
    ELSE IF e.code # Absent THEN e.code
    ELSE {}

\* Mutant: the status/error-code attribute is not looked at.
OpenAIIsBillingErrorByMessage(e) ==
    LET error_str == Lower(e.msg)
        error_type == Lower(e.type_name)
    IN  \/ AnyKeyword(OpenAIKeywords, error_str)
        \/ Contains(error_type, KwQuota)
        \/ Contains(error_type, KwBilling)

OpenAIIsBillingError(e) ==
    LET error_str == Lower(e.msg)
        error_type == Lower(e.type_name)
        error_code == OpenAIErrorCode(e)
    IN  \/ error_code \cap {402, 429} # {}
        \/ AnyKeyword(OpenAIKeywords, error_str)
        \/ Contains(error_type, KwQuota)
        \/ Contains(error_type, KwBilling)

OpenAIProcessImage(image_path, outcome) ==
    IF outcome.kind = "text"
    THEN <<Strip(outcome.text), None>>
    ELSE LET e == Raised(image_path, outcome)
         IN  IF OpenAIIsBillingError(e)
             THEN <<None, OpenAIBillingText>>
             ELSE <<None, None>>

AnthropicProcessImage(image_path, outcome) ==
    IF outcome.kind = "text"
    THEN <<Strip(outcome.text), None>>
    ELSE LET e == Raised(image_path, outcome)
             error_str == Lower(e.msg)
         IN  IF AnyKeyword(AnthropicKeywords, error_str)
             THEN <<None, AnthropicBillingText>>
             ELSE <<None, None>>

\* self.provider.process_image: dispatch on the variant create_provider built.
ProcessImage(provider_name, image_path, outcome) ==
    CASE provider_name = "gemini" -> GeminiProcessImage(image_path, outcome)
      [] provider_name = "openai" -> OpenAIProcessImage(image_path, outcome)
      [] provider_name = "anthropic" -> AnthropicProcessImage(image_path, outcome)

(* ---------------------------------------------------------------------- *)
(* Inputs: file names, vendor replies, vendor errors                      *)
(* ---------------------------------------------------------------------- *)
NameA == <<"a", ".", "p", "n", "g">>
NameNote == <<"n", "o", "t", "e", ".", "t", "x", "t">>
NameHidden == <<".", "p", "n", "g">>
NameCredit == <<"C", "r", "e", "d", "i", "t", ".", "J", "P", "G">>
NameDir == <<"d", ".", "p", "n", "g">>

MsgInsufficientQuota == <<"i", "n", "s", "u", "f", "f", "i", "c", "i", "e", "n", "t", "_", "q", "u", "o", "t", "a">>
MsgUpperQuota == <<"I", "n", "s", "u", "f", "f", "i", "c", "i", "e", "n", "t", "_", "Q", "u", "o", "t", "a">>
MsgTooMany == <<"T", "o", "o", " ", "M", "a", "n", "y", " ", "R", "e", "q", "u", "e", "s", "t", "s">>
MsgRateLimit == <<"R", "a", "t", "e", " ", "l", "i", "m", "i", "t", " ", "e", "x", "c", "e", "e", "d", "e", "d", ",", " ", "p", "l", "e", "a", "s", "e", " ", "u", "p", "g", "r", "a", "d", "e", " ", "y", "o", "u", "r", " ", "p", "l", "a", "n">>
MsgReset == <<"C", "o", "n", "n", "e", "c", "t", "i", "o", "n", " ", "r", "e", "s", "e", "t", " ", "b", "y", " ", "p", "e", "e", "r">>
MsgNoStrip == <<"'", "N", "o", "n", "e", "T", "y", "p", "e", "'", " ", "o", "b", "j", "e", "c", "t", " ", "h", "a", "s", " ", "n", "o", " ", "a", "t", "t", "r", "i", "b", "u", "t", "e", " ", "'", "s", "t", "r", "i", "p", "'">>
MsgCode429 == <<"E", "r", "r", "o", "r", " ", "c", "o", "d", "e", ":", " ", "4", "2", "9">>

TypeAPIError == <<"A", "P", "I", "E", "r", "r", "o", "r">>
TypeRateLimitError == <<"R", "a", "t", "e", "L", "i", "m", "i", "t", "E", "r", "r", "o", "r">>
TypeQuotaError == <<"Q", "u", "o", "t", "a", "E", "r", "r", "o", "r">>
TypeAttributeError == <<"A", "t", "t", "r", "i", "b", "u", "t", "e", "E", "r", "r", "o", "r">>
TypeBillingError == <<"B", "i", "l", "l", "i", "n", "g", "E", "r", "r", "o", "r">>

TextAnswer == <<" ", "Q", "u", "e", "s", "t", "i", "o", "n", " ", "1", ":", " ", "4", "2", "\n">>
TextBlank == <<" ", "\n">>

FileEvent(name, is_directory) == [name |-> name, is_directory |-> is_directory]

\* Creation events the watched directory can deliver: a.png, Credit.JPG (an
\* upper-case extension, and a name that holds a billing keyword), note.txt,
\* and a sub-directory named d.png.
FileEvents ==
    {FileEvent(n, FALSE) : n \in {NameA, NameCredit, NameNote}}
        \cup {FileEvent(NameDir, TRUE)}

VendorErrors ==
    {Exc(MsgInsufficientQuota, TypeAPIError, Absent, Absent),
     Exc(MsgUpperQuota, TypeAPIError, Absent, Absent),
     Exc(MsgTooMany, TypeRateLimitError, {429}, Absent),
     Exc(MsgRateLimit, TypeAPIError, Absent, Absent),
     Exc(MsgCode429, TypeAPIError, Absent, Absent),
     Exc(MsgReset, TypeAPIError, Absent, Absent),
     Exc(MsgReset, TypeAPIError, Absent, {402}),
     Exc(MsgReset, TypeAPIError, {500}, {429}),
     Exc(MsgReset, TypeQuotaError, Absent, Absent),
     Exc(MsgReset, TypeBillingError, Absent, Absent),
     Exc(MsgNoStrip, TypeAttributeError, Absent, Absent)}

NoOutcome == [kind |-> "none"]

OutcomesOf(errors) ==
    {[kind |-> "open_error"]}
        \cup {[kind |-> "text", text |-> t] : t \in {TextAnswer, TextBlank}}
        \cup {[kind |-> "raise", exc |-> e] : e \in errors}

\* The errors the application's runs draw from: one of each classification.
PipelineErrors ==
    {Exc(MsgInsufficientQuota, TypeAPIError, Absent, Absent),
     Exc(MsgTooMany, TypeRateLimitError, {429}, Absent),
     Exc(MsgReset, TypeAPIError, Absent, Absent),
     Exc(MsgReset, TypeQuotaError, Absent, Absent)}

Outcomes == OutcomesOf(PipelineErrors)

(* ---------------------------------------------------------------------- *)
(* Configuration                                                          *)
(* ---------------------------------------------------------------------- *)
MODAL_DISPLAY_DURATION == 5
MODAL_ERROR_DURATION == 10

ApiKey == <<"s", "k">>

\* The process environment config.py reads: a credential per backend (None
\* when the variable is unset, possibly empty) and the default backend name,
\* already lower-cased by config.py.
Envs ==
    [GEMINI_API_KEY : {None, ApiKey},
     OPENAI_API_KEY : {None, <<>>, ApiKey},
     ANTHROPIC_API_KEY : {None, ApiKey},
     DEFAULT_PROVIDER : Providers \cup {"bogus"}]

\* --provider: absent, or one of the parser's choices.
ProviderArgs == {"None"} \cup Providers

get_api_key(env, provider) ==
    CASE provider = "gemini" -> env.GEMINI_API_KEY
      [] provider = "openai" -> env.OPENAI_API_KEY
      [] provider = "anthropic" -> env.ANTHROPIC_API_KEY
      [] OTHER -> None

(* ---------------------------------------------------------------------- *)
(* State                                                                  *)
(* ---------------------------------------------------------------------- *)
MaxEvents == 3
MaxQueue == 1
MaxCalls == 2

VARIABLES
    main_pc,              \* main thread: "start", "constructed", "watching", "stopping",
                          \*              "joined", "destroyed", "exited"
    exit_code,            \* <<>> while running, <<n>> after sys.exit(n)
    provider_name,        \* _initialize_provider's resolved backend name
    api_key,              \* _initialize_provider's credential for it
    dir_exists,           \* whether Config.SCREENSHOT_DIR exists
    observer_started,     \* observer.start() has run
    observer_stopped,     \* observer.stop() has run
    destroy_calls,        \* number of modal.destroy() calls made
    queue,                \* creation events the observer has not dispatched yet
    events_seen,          \* number of creation events delivered so far
    watch_pc,             \* watch thread: "idle", "sleeping", "calling"
    cur_path,             \* the path the watch thread is working on
    in_flight,            \* on_created calls that passed the filter and have not returned
    last_processed_path,  \* ScreenshotQuestionAnswerer.last_processed_path
    backend_calls,        \* number of provider.process_image calls made
    last_call,            \* the most recent process_screenshot call
    prev_path,            \* the path of the process_screenshot call before it
    call_log,             \* the paths handed to provider.process_image, in order
    root,                 \* AnswerModal.root is set
    timers,               \* the Tk timer queue of root.after callbacks
    visible,              \* the window is mapped (deiconify / withdraw)
    label_text,           \* answer_label's text
    label_fg,             \* answer_label's colour
    hwnd,                 \* AnswerModal._hwnd is set
    click_through,        \* WS_EX_TRANSPARENT is set on the window
    destroyed,            \* root.quit() and root.destroy() have run
    api_hist,             \* show_answer / hide calls made directly on the overlay
    listing,              \* what iterdir yields for the screenshot directory, in its order
    io_error,             \* the file-system call of get_latest_screenshot that fails, if any
    latest                \* what get_latest_screenshot did

main_vars ==
    <<main_pc, exit_code, provider_name, api_key, dir_exists, observer_started,
      observer_stopped, destroy_calls>>
watch_vars == <<queue, events_seen, watch_pc, cur_path, in_flight>>
pipe_vars == <<last_processed_path, backend_calls, last_call, prev_path, call_log>>
window_vars == <<visible, label_text, label_fg, hwnd, click_through, destroyed>>
overlay_vars == <<root, timers, visible, label_text, label_fg, hwnd, click_through, destroyed>>
latest_vars == <<listing, io_error, latest>>
vars ==
    <<main_pc, exit_code, provider_name, api_key, dir_exists, observer_started,
      observer_stopped, destroy_calls,
      queue, events_seen, watch_pc, cur_path, in_flight,
      last_processed_path, backend_calls, last_call, prev_path, call_log,
      root, timers, visible, label_text, label_fg, hwnd, click_through, destroyed, api_hist,
      listing, io_error, latest>>

Range(f) == {f[i] : i \in DOMAIN f}

NotCalled == [called |-> FALSE, raised |-> FALSE, value |-> None]

(* ---------------------------------------------------------------------- *)
(* Overlay                                                                *)
(* ---------------------------------------------------------------------- *)
text_color == "#e0e0e0"
warning_color == "#ff9800"

\* One second, in the milliseconds root.after counts in.
Second == 1000

Timer(remaining, cb, text, duration, is_warning) ==
    [remaining |-> remaining, cb |-> cb, text |-> text, duration |-> duration,
     is_warning |-> is_warning]

\* root.after(ms, cb): the timer queue is ordered by due time, and a new timer
\* goes behind those already due no later than it.
After(ts, t) ==
    LET k == Cardinality({i \in 1..Len(ts) : ts[i].remaining <= t.remaining})
    IN  SubSeq(ts, 1, k) \o <<t>> \o SubSeq(ts, k + 1, Len(ts))

\* Mutant: show_answer schedules _show without looking at root.
show_answerWithoutReadyCheck(ts, answer_text, duration, is_warning) ==
    After(ts, Timer(0, "_show", answer_text, duration, is_warning))

\* show_answer, as far as the caller's thread runs it: with no window the
\* request is dropped, otherwise _show is scheduled on the UI thread.
show_answer(ts, answer_text, duration, is_warning) ==
    IF ~root
    THEN ts
    ELSE After(ts, Timer(0, "_show", answer_text, duration, is_warning))

\* _hide_with_click_through, as far as its caller runs it.
hide_with_click_through(ts) ==
    IF ~root
    THEN ts
    ELSE After(ts, Timer(0, "_hide", None, 0, FALSE))

\* The UI thread runs _show: text and colour, the window mapped, the handle
\* fetched if it was not (winfo_id may fail), click-through switched on (the
\* system call may fail silently), and the dismissal armed.
RunShow(t, winfo_ok, api_ok) ==
    /\ label_text' = t.text
    /\ label_fg' = IF t.is_warning THEN warning_color ELSE text_color
    /\ visible' = TRUE
    /\ hwnd' = (hwnd \/ winfo_ok)
    /\ click_through' = IF hwnd' /\ api_ok THEN TRUE ELSE click_through
    /\ timers' = After(Tail(timers),
                       Timer(t.duration * Second, "_hide_with_click_through", None, 0, FALSE))
    /\ UNCHANGED destroyed

\* Mutant: the armed dismissal runs without scheduling _hide.
RunDismissalWithoutHide ==
    /\ timers' = Tail(timers)
    /\ UNCHANGED window_vars

\* The UI thread runs the armed dismissal: it schedules _hide.
RunHideWithClickThrough ==
    /\ timers' = hide_with_click_through(Tail(timers))
    /\ UNCHANGED window_vars

\* The UI thread runs _hide: click-through on, the window withdrawn.
RunHide(api_ok) ==
    /\ click_through' = IF hwnd /\ api_ok THEN TRUE ELSE click_through
    /\ visible' = FALSE
    /\ timers' = Tail(timers)
    /\ UNCHANGED <<label_text, label_fg, hwnd, destroyed>>

\* destroy, as far as its caller runs it: with a window, _destroy is scheduled
\* on the UI thread.
destroy(ts) ==
    IF ~root
    THEN ts
    ELSE After(ts, Timer(0, "_destroy", None, 0, FALSE))

\* The UI thread runs _destroy: the main loop is told to quit and the window is
\* destroyed.
RunDestroy ==
    /\ destroyed' = TRUE
    /\ visible' = FALSE
    /\ timers' = Tail(timers)
    /\ UNCHANGED <<label_text, label_fg, hwnd, click_through>>

\* The Tk main loop runs the first timer that is due. It has ended once
\* _destroy has run, and its daemon thread ends with the process.
UiRunTimer ==
    /\ root
    /\ ~destroyed
    /\ main_pc # "exited"
    /\ timers # <<>>
    /\ Head(timers).remaining = 0
    /\ LET t == Head(timers)
       IN  \/ /\ t.cb = "_show"
              /\ \E winfo_ok \in BOOLEAN, api_ok \in BOOLEAN : RunShow(t, winfo_ok, api_ok)
           \/ /\ t.cb = "_hide_with_click_through"
              /\ RunHideWithClickThrough
           \/ /\ t.cb = "_hide"
              /\ \E api_ok \in BOOLEAN : RunHide(api_ok)
           \/ /\ t.cb = "_destroy"
              /\ RunDestroy
    /\ UNCHANGED <<main_vars, watch_vars, pipe_vars, root, api_hist, latest_vars>>

\* One second passes. The main loop serves due timers first, so time only moves
\* on when none is due.
Tick ==
    /\ timers # <<>>
    /\ \A i \in 1..Len(timers) : timers[i].remaining > 0
    /\ timers' = [i \in 1..Len(timers) |->
                    [timers[i] EXCEPT !.remaining = @ - Second]]
    /\ api_hist' = [i \in 1..Len(api_hist) |->
                    [api_hist[i] EXCEPT !.age = @ + Second]]
    /\ UNCHANGED <<main_vars, watch_vars, pipe_vars, root, window_vars, latest_vars>>

\* The UI thread finishes creating the window after the constructor's bounded
\* wait has given up on it.
CreateWindow ==
    /\ ~root
    /\ root' = TRUE
    /\ UNCHANGED <<main_vars, watch_vars, pipe_vars, timers, window_vars, api_hist, latest_vars>>

(* ---------------------------------------------------------------------- *)
(* Main thread: start-up                                                  *)
(* ---------------------------------------------------------------------- *)
Exit(status) ==
    /\ main_pc' = "exited"
    /\ exit_code' = <<status>>

\* _initialize_provider: sys.exit(1) without a credential, and when
\* create_provider raises (an unknown name, a missing client library).
InitializeProvider ==
    /\ main_pc = "start"
    /\ \E arg \in ProviderArgs, env \in Envs, lib_ok \in BOOLEAN :
          LET name == IF arg # "None" THEN arg ELSE env.DEFAULT_PROVIDER
              key == get_api_key(env, name)
          IN  /\ provider_name' = name
              /\ api_key' = key
              /\ IF Falsy(key) \/ name \notin Providers \/ ~lib_ok
                 THEN Exit(1)
                 ELSE main_pc' = "constructed" /\ UNCHANGED exit_code
    /\ UNCHANGED <<dir_exists, observer_started, observer_stopped, destroy_calls,
                   watch_vars, pipe_vars, overlay_vars, api_hist, latest_vars>>

\* Mutant: run() starts the watch without checking the directory.
RunWithoutDirCheck ==
    /\ main_pc = "constructed"
    /\ observer_started' = TRUE
    /\ main_pc' = "watching"
    /\ UNCHANGED <<exit_code, provider_name, api_key, dir_exists, observer_stopped,
                   destroy_calls, watch_vars, pipe_vars, overlay_vars, api_hist, latest_vars>>

\* run(), up to observer.start().
Run ==
    /\ main_pc = "constructed"
    /\ IF ~dir_exists
       THEN Exit(1) /\ UNCHANGED observer_started
       ELSE /\ observer_started' = TRUE
            /\ main_pc' = "watching"
            /\ UNCHANGED exit_code
    /\ UNCHANGED <<provider_name, api_key, dir_exists, observer_stopped, destroy_calls,
                   watch_vars, pipe_vars, overlay_vars, api_hist, latest_vars>>

(* ---------------------------------------------------------------------- *)
(* Main thread: shutdown                                                  *)
(* ---------------------------------------------------------------------- *)
\* Ctrl+C reaches run()'s keep-alive loop: observer.stop(). The observer takes
\* no further event; a handler that is running runs to its end.
KeyboardInterrupt ==
    /\ main_pc = "watching"
    /\ observer_stopped' = TRUE
    /\ main_pc' = "stopping"
    /\ UNCHANGED <<exit_code, provider_name, api_key, dir_exists, observer_started,
                   destroy_calls, watch_vars, pipe_vars, overlay_vars, api_hist, latest_vars>>

\* Mutant: join() returns while the observer thread is still in a handler.
ObserverJoinWithoutWaiting ==
    /\ main_pc = "stopping"
    /\ main_pc' = "joined"
    /\ UNCHANGED <<exit_code, provider_name, api_key, dir_exists, observer_started,
                   observer_stopped, destroy_calls, watch_vars, pipe_vars, overlay_vars,
                   api_hist, latest_vars>>

\* observer.join() returns: the observer thread has ended.
ObserverJoin ==
    /\ main_pc = "stopping"
    /\ watch_pc = "idle"
    /\ main_pc' = "joined"
    /\ UNCHANGED <<exit_code, provider_name, api_key, dir_exists, observer_started,
                   observer_stopped, destroy_calls, watch_vars, pipe_vars, overlay_vars,
                   api_hist, latest_vars>>

\* self.modal.destroy().
Destroy ==
    /\ main_pc = "joined"
    /\ timers' = destroy(timers)
    /\ destroy_calls' = destroy_calls + 1
    /\ main_pc' = "destroyed"
    /\ UNCHANGED <<exit_code, provider_name, api_key, dir_exists, observer_started,
                   observer_stopped, watch_vars, pipe_vars, root, window_vars,
                   api_hist, latest_vars>>

\* sys.exit(0).
SysExit ==
    /\ main_pc = "destroyed"
    /\ Exit(0)
    /\ UNCHANGED <<provider_name, api_key, dir_exists, observer_started, observer_stopped,
                   destroy_calls, watch_vars, pipe_vars, overlay_vars, api_hist, latest_vars>>

(* ---------------------------------------------------------------------- *)
(* Watch thread                                                           *)
(* ---------------------------------------------------------------------- *)
Call(path, backend, outcome, result, shows, returned) ==
    [path |-> path, backend |-> backend, outcome |-> outcome, result |-> result,
     shows |-> shows, returned |-> returned]

NoCall == Call(None, FALSE, NoOutcome, <<None, None>>, <<>>, FALSE)

ShowRequest(text, duration, is_warning) ==
    [text |-> text, duration |-> duration, is_warning |-> is_warning]

\* The operating system reports a new entry of the watched directory.
FsEvent ==
    /\ observer_started
    /\ ~observer_stopped
    /\ events_seen < MaxEvents
    /\ Len(queue) < MaxQueue
    /\ \E event \in FileEvents : queue' = Append(queue, event)
    /\ events_seen' = events_seen + 1
    /\ UNCHANGED <<main_vars, watch_pc, cur_path, in_flight, pipe_vars, overlay_vars, api_hist, latest_vars>>

\* Mutant: the is_directory test is missing.
AcceptsDirectories(event) == IsImageName(event.name)

\* on_created's filter.
Accepts(event) == ~event.is_directory /\ IsImageName(event.name)

\* Mutant: events are dispatched while a handler is still running.
OnCreatedConcurrent ==
    /\ observer_started
    /\ ~observer_stopped
    /\ queue # <<>>
    /\ queue' = Tail(queue)
    /\ IF Accepts(Head(queue))
       THEN /\ watch_pc' = "sleeping"
            /\ cur_path' = PathOf(Head(queue).name)
            /\ in_flight' = in_flight + 1
       ELSE UNCHANGED <<watch_pc, cur_path, in_flight>>
    /\ UNCHANGED <<main_vars, events_seen, pipe_vars, overlay_vars, api_hist, latest_vars>>

\* The observer thread takes the next event and runs on_created on it, up to
\* the sleep. It runs one handler at a time.
OnCreated ==
    /\ observer_started
    /\ ~observer_stopped
    /\ watch_pc = "idle"
    /\ queue # <<>>
    /\ queue' = Tail(queue)
    /\ IF Accepts(Head(queue))
       THEN /\ watch_pc' = "sleeping"
            /\ cur_path' = PathOf(Head(queue).name)
            /\ in_flight' = in_flight + 1
       ELSE UNCHANGED <<watch_pc, cur_path, in_flight>>
    /\ UNCHANGED <<main_vars, events_seen, pipe_vars, overlay_vars, api_hist, latest_vars>>

\* Mutant: the Path object is compared with the stored string, which it never
\* equals.
IsDuplicatePathObject(screenshot_path) == FALSE

\* Mutant: a path is a duplicate when it was handed to the backend at any
\* earlier time.
IsDuplicateOfAnySeen(screenshot_path) == screenshot_path \in Range(call_log)

\* process_screenshot's duplicate check.
IsDuplicate(screenshot_path) == screenshot_path = last_processed_path

\* Mutant: the path is not recorded before the backend call.
ProcessScreenshotUnrecorded ==
    /\ watch_pc = "sleeping"
    /\ prev_path' = last_call.path
    /\ IF IsDuplicate(cur_path)
       THEN /\ last_call' = Call(cur_path, FALSE, NoOutcome, <<None, None>>, <<>>, TRUE)
            /\ watch_pc' = "idle"
            /\ in_flight' = in_flight - 1
            /\ UNCHANGED <<backend_calls, call_log>>
       ELSE /\ backend_calls' = backend_calls + 1
            /\ call_log' = Append(call_log, cur_path)
            /\ last_call' = Call(cur_path, TRUE, NoOutcome, <<None, None>>, <<>>, FALSE)
            /\ watch_pc' = "calling"
            /\ UNCHANGED in_flight
    /\ UNCHANGED <<main_vars, queue, events_seen, cur_path, last_processed_path,
                   overlay_vars, api_hist, latest_vars>>

\* process_screenshot, from its start to the backend call: a duplicate returns,
\* anything else is recorded and handed to the backend.
ProcessScreenshot ==
    /\ watch_pc = "sleeping"
    /\ prev_path' = last_call.path
    /\ IF IsDuplicate(cur_path)
       THEN /\ last_call' = Call(cur_path, FALSE, NoOutcome, <<None, None>>, <<>>, TRUE)
            /\ watch_pc' = "idle"
            /\ in_flight' = in_flight - 1
            /\ UNCHANGED <<last_processed_path, backend_calls, call_log>>
       ELSE /\ last_processed_path' = cur_path
            /\ backend_calls' = backend_calls + 1
            /\ call_log' = Append(call_log, cur_path)
            /\ last_call' = Call(cur_path, TRUE, NoOutcome, <<None, None>>, <<>>, FALSE)
            /\ watch_pc' = "calling"
            /\ UNCHANGED in_flight
    /\ UNCHANGED <<main_vars, queue, events_seen, cur_path, overlay_vars, api_hist, latest_vars>>

\* Mutant: a billing warning is shown like an answer.
RouteWarningAsAnswer(answer, billing_error) ==
    IF ~Falsy(billing_error)
    THEN <<ShowRequest(billing_error, MODAL_DISPLAY_DURATION, FALSE)>>
    ELSE IF Falsy(answer)
    THEN <<>>
    ELSE <<ShowRequest(answer, MODAL_DISPLAY_DURATION, FALSE)>>

\* process_screenshot's routing of the backend's (answer, billing_error).
Route(answer, billing_error) ==
    IF ~Falsy(billing_error)
    THEN <<ShowRequest(billing_error, MODAL_ERROR_DURATION, TRUE)>>
    ELSE IF Falsy(answer)
    THEN <<>>
    ELSE <<ShowRequest(answer, MODAL_DISPLAY_DURATION, FALSE)>>

RECURSIVE PostAll(_, _)
PostAll(ts, shows) ==
    IF shows = <<>>
    THEN ts
    ELSE PostAll(show_answer(ts, Head(shows).text, Head(shows).duration, Head(shows).is_warning),
                 Tail(shows))

\* The backend call returns and process_screenshot routes its result.
ProcessImageReturn ==
    /\ watch_pc = "calling"
    /\ \E outcome \in Outcomes :
          LET result == ProcessImage(provider_name, cur_path, outcome)
              shows == Route(result[1], result[2])
          IN  /\ last_call' = [last_call EXCEPT !.outcome = outcome, !.result = result,
                                                !.shows = shows, !.returned = TRUE]
              /\ timers' = PostAll(timers, shows)
    /\ watch_pc' = "idle"
    /\ in_flight' = in_flight - 1
    /\ UNCHANGED <<main_vars, queue, events_seen, cur_path, last_processed_path,
                   backend_calls, prev_path, call_log, root, window_vars, api_hist,
                   latest_vars>>

(* ---------------------------------------------------------------------- *)
(* The application                                                        *)
(* ---------------------------------------------------------------------- *)
InitCommon ==
    /\ main_pc = "start"
    /\ exit_code = <<>>
    /\ provider_name = "unset"
    /\ api_key = None
    /\ observer_started = FALSE
    /\ observer_stopped = FALSE
    /\ destroy_calls = 0
    /\ destroyed = FALSE
    /\ queue = <<>>
    /\ events_seen = 0
    /\ watch_pc = "idle"
    /\ cur_path = None
    /\ in_flight = 0
    /\ last_processed_path = None
    /\ backend_calls = 0
    /\ last_call = NoCall
    /\ prev_path = None
    /\ call_log = <<>>
    /\ timers = <<>>
    /\ visible = FALSE
    /\ label_text = <<>>
    /\ label_fg = text_color
    /\ hwnd = FALSE
    /\ click_through = FALSE
    /\ api_hist = <<>>

\* The application. Its actions never read the overlay's window state, and the
\* passing of time (Tick) changes nothing else: the overlay's timing is
\* followed in SpecOverlay.
Init ==
    /\ InitCommon
    /\ root \in BOOLEAN
    /\ dir_exists \in BOOLEAN
    /\ listing = <<>>
    /\ io_error = "none"
    /\ latest = NotCalled

Next ==
    \/ InitializeProvider
    \/ Run
    \/ FsEvent
    \/ OnCreated
    \/ ProcessScreenshot
    \/ ProcessImageReturn
    \/ CreateWindow
    \/ UiRunTimer
    \/ KeyboardInterrupt
    \/ ObserverJoin
    \/ Destroy
    \/ SysExit

Spec == Init /\ [][Next]_vars

(* ---------------------------------------------------------------------- *)
(* The overlay, called directly                                           *)
(* ---------------------------------------------------------------------- *)
TextX == <<"X">>
TextY == <<"Y">>

ApiCall(op, text, duration, is_warning, accepted) ==
    [op |-> op, text |-> text, duration |-> duration, is_warning |-> is_warning,
     accepted |-> accepted, age |-> 0]

\* A caller invokes show_answer(answer_text, duration, is_warning).
ShowAnswerCall ==
    /\ Len(api_hist) < MaxCalls
    /\ \E answer_text \in {TextX, TextY},
          duration \in {MODAL_DISPLAY_DURATION, MODAL_ERROR_DURATION},
          is_warning \in BOOLEAN :
          /\ timers' = show_answer(timers, answer_text, duration, is_warning)
          /\ api_hist' = Append(api_hist,
                                ApiCall("show", answer_text, duration, is_warning, root))
    /\ UNCHANGED <<main_vars, watch_vars, pipe_vars, root, window_vars, latest_vars>>

\* A caller invokes hide().
HideCall ==
    /\ Len(api_hist) < MaxCalls
    /\ timers' = hide_with_click_through(timers)
    /\ api_hist' = Append(api_hist, ApiCall("hide", None, 0, FALSE, root))
    /\ UNCHANGED <<main_vars, watch_vars, pipe_vars, root, window_vars, latest_vars>>

InitOverlay ==
    /\ InitCommon
    /\ root \in BOOLEAN
    /\ dir_exists = TRUE
    /\ listing = <<>>
    /\ io_error = "none"
    /\ latest = NotCalled

NextOverlay ==
    \/ ShowAnswerCall
    \/ HideCall
    \/ CreateWindow
    \/ UiRunTimer
    \/ Tick

SpecOverlay == InitOverlay /\ [][NextOverlay]_vars

\* A caller invokes show_answer the way process_screenshot does: an answer for
\* MODAL_DISPLAY_DURATION, or a warning for MODAL_ERROR_DURATION.
ShowAnswerAsPipeline ==
    /\ Len(api_hist) < MaxCalls
    /\ \E request \in {ShowRequest(TextX, MODAL_DISPLAY_DURATION, FALSE),
                       ShowRequest(TextY, MODAL_ERROR_DURATION, TRUE)} :
          /\ timers' = show_answer(timers, request.text, request.duration, request.is_warning)
          /\ api_hist' = Append(api_hist,
                                ApiCall("show", request.text, request.duration,
                                        request.is_warning, root))
    /\ UNCHANGED <<main_vars, watch_vars, pipe_vars, root, window_vars, latest_vars>>

NextOverlayLive ==
    \/ ShowAnswerAsPipeline
    \/ HideCall
    \/ CreateWindow
    \/ UiRunTimer
    \/ Tick

\* The overlay with a UI thread that keeps running: its main loop serves every
\* due timer, and time passes while timers are pending.
SpecOverlayLive ==
    InitOverlay /\ [][NextOverlayLive]_vars /\ WF_vars(UiRunTimer) /\ WF_vars(Tick)

(* ---------------------------------------------------------------------- *)
(* process_image, called directly                                         *)
(* ---------------------------------------------------------------------- *)
\* One backend variant is handed one image path and meets one outcome.
ProcessImageCall ==
    /\ \E p \in Providers, name \in {NameA, NameCredit, NameNote},
          outcome \in OutcomesOf(VendorErrors) :
          /\ provider_name' = p
          /\ cur_path' = PathOf(name)
          /\ last_call' = Call(PathOf(name), TRUE, outcome,
                               ProcessImage(p, PathOf(name), outcome), <<>>, TRUE)
    /\ UNCHANGED <<main_pc, exit_code, api_key, dir_exists, observer_started,
                   observer_stopped, destroy_calls,
                   queue, events_seen, watch_pc, in_flight,
                   last_processed_path, backend_calls, prev_path, call_log,
                   overlay_vars, api_hist, latest_vars>>

InitProvider ==
    /\ InitCommon
    /\ root = TRUE
    /\ dir_exists = TRUE
    /\ listing = <<>>
    /\ io_error = "none"
    /\ latest = NotCalled

NextProvider == ProcessImageCall

SpecProvider == InitProvider /\ [][NextProvider]_vars

(* ---------------------------------------------------------------------- *)
(* get_latest_screenshot                                                  *)
(* ---------------------------------------------------------------------- *)
MaxFiles == 3
MaxMtime == 2

DirEntry(name, is_file, mtime) == [name |-> name, is_file |-> is_file, mtime |-> mtime]

\* Entries the directory may hold: two image files, a text file, a dot-file
\* and a sub-directory named like an image, each with a modification time.
EntryPool ==
    {DirEntry(n, TRUE, t) : n \in {NameA, NameCredit, NameNote, NameHidden}, t \in 1..MaxMtime}
        \cup {DirEntry(NameDir, FALSE, t) : t \in 1..MaxMtime}

RECURSIVE SeqsUpTo(_, _)
SeqsUpTo(S, n) ==
    IF n = 0
    THEN {<<>>}
    ELSE LET shorter == SeqsUpTo(S, n - 1)
         IN  shorter \cup {Append(q, x) : q \in shorter, x \in S}

\* Directory listings: at most MaxFiles entries, no name twice.
Listings ==
    {l \in SeqsUpTo(EntryPool, MaxFiles) :
        \A i \in 1..Len(l), j \in 1..Len(l) : i # j => l[i].name # l[j].name}

IsImageFile(f) == f.is_file /\ IsImageName(f.name)

\* Mutant: the first image file is taken, whatever its modification time.
FirstFile(image_files) == image_files[1]

\* max(image_files, key=st_mtime): the first file, in listing order, that no
\* file exceeds.
MaxByMtime(image_files) ==
    LET i == CHOOSE i \in 1..Len(image_files) :
                 /\ \A j \in 1..Len(image_files) : image_files[j].mtime <= image_files[i].mtime
                 /\ \A j \in 1..(i - 1) : image_files[j].mtime < image_files[i].mtime
    IN  image_files[i]

Returned(value) == [called |-> TRUE, raised |-> FALSE, value |-> value]

\* get_latest_screenshot(screenshot_dir): any exception of iterdir or stat is
\* caught and gives None.
get_latest_screenshot(exists, entries, failing) ==
    IF ~exists
    THEN Returned(None)
    ELSE IF failing = "iterdir"
    THEN Returned(None)
    ELSE LET image_files == SelectSeq(entries, IsImageFile)
         IN  IF image_files = <<>>
             THEN Returned(None)
             ELSE IF failing = "stat"
             THEN Returned(None)
             ELSE Returned(PathOf(MaxByMtime(image_files).name))

GetLatestScreenshot ==
    /\ ~latest.called
    /\ latest' = get_latest_screenshot(dir_exists, listing, io_error)
    /\ UNCHANGED <<main_vars, watch_vars, pipe_vars, overlay_vars, api_hist, listing, io_error>>

InitLatest ==
    /\ InitCommon
    /\ root = TRUE
    /\ dir_exists \in BOOLEAN
    /\ listing \in Listings
    /\ io_error \in {"none", "iterdir", "stat"}
    /\ latest = NotCalled

NextLatest == GetLatestScreenshot

SpecLatest == InitLatest /\ [][NextLatest]_vars

(* ---------------------------------------------------------------------- *)
(* Properties                                                             *)
(* ---------------------------------------------------------------------- *)
AllowedExtensions ==
    {<<"p", "n", "g">>, <<"j", "p", "g">>, <<"j", "p", "e", "g">>,
     <<"b", "m", "p">>, <<"g", "i", "f">>, <<"w", "e", "b", "p">>}

\* name ends, case-insensitively, with a dot and an allowed extension, and has
\* something before the dot.
HasAllowedExtension(name) ==
    \E ext \in AllowedExtensions :
        /\ Len(name) > Len(ext) + 1
        /\ Lower(SubSeq(name, Len(name) - Len(ext), Len(name))) = <<".">> \o ext

Qualifies(event) == ~event.is_directory /\ HasAllowedExtension(event.name)

KeywordsOf(p) ==
    CASE p = "gemini" -> GeminiKeywords
      [] p = "openai" -> OpenAIKeywords
      [] p = "anthropic" -> AnthropicKeywords

BillingTextOf(p) ==
    CASE p = "gemini" -> GeminiBillingText
      [] p = "openai" -> OpenAIBillingText
      [] p = "anthropic" -> AnthropicBillingText

NoKeyword(p, e) == ~AnyKeyword(KeywordsOf(p), Lower(e.msg))

NoStatus(e) == (e.status_code \cup e.code) \cap {402, 429} = {}

NoBillingType(e) ==
    /\ ~Contains(Lower(e.type_name), KwQuota)
    /\ ~Contains(Lower(e.type_name), KwBilling)

\* The most recent process_screenshot call reached the backend and has returned.
Attempted == last_call.returned /\ last_call.backend

\* C1: of two directly consecutive process_screenshot calls with the same path
\* string, the second returns without calling the backend, so the two call it
\* at most once in total.
C1_SamePathTwiceOneBackendCall ==
    (prev_path # None /\ last_call.path = prev_path) => ~last_call.backend

C1_Witness ==
    /\ prev_path # None
    /\ last_call.path = prev_path
    /\ last_call.returned
    /\ backend_calls = 1

\* C2 (as claimed): show_answer(X, 5, normal) followed, before the first
\* dismissal fires, by show_answer(Y, 5, warning): once the UI thread has served
\* what is due, the overlay shows Y in the warning colour for as long as fewer
\* than 5 seconds have passed since the second call.
C2_SecondShowKeepsItsFullDuration ==
    ( /\ Len(api_hist) = 2
      /\ api_hist[1].op = "show" /\ api_hist[1].accepted
      /\ api_hist[1].text = TextX /\ api_hist[1].duration = 5 /\ ~api_hist[1].is_warning
      /\ api_hist[2].op = "show" /\ api_hist[2].accepted
      /\ api_hist[2].text = TextY /\ api_hist[2].duration = 5 /\ api_hist[2].is_warning
      /\ api_hist[1].age - api_hist[2].age < 5 * Second
      /\ api_hist[2].age < 5 * Second
      /\ \A i \in 1..Len(timers) : timers[i].remaining > 0 )
    => (visible /\ label_text = TextY /\ label_fg = warning_color)

\* A handler that is running was started for a qualifying event.
C3_StartedOnlyForImages ==
    in_flight > 0 => \E event \in FileEvents : Qualifies(event) /\ cur_path = PathOf(event.name)

\* Taking any other event off the queue starts nothing.
C3_OthersIgnored ==
    (queue # <<>> /\ queue' = Tail(queue) /\ ~Qualifies(Head(queue)))
        => UNCHANGED <<watch_pc, cur_path, in_flight, last_processed_path,
                       backend_calls, last_call, prev_path>>

\* C3: an event is handed to process_screenshot only if it is for a
\* non-directory path with an allowed image extension (case-insensitive); the
\* observer taking any other event off its queue starts no call and changes
\* neither last_processed_path nor anything else of the pipeline.
C3_OnlyImageFilesDispatched == [](C3_StartedOnlyForImages) /\ [][C3_OthersIgnored]_vars

C3_Witness ==
    /\ events_seen = 1
    /\ queue = <<>>
    /\ watch_pc = "idle"
    /\ last_call = NoCall
    /\ last_processed_path = None

\* C4 (as claimed): for every backend variant, an error whose message contains
\* "insufficient_quota", or that carries status code 429, gives
\* (None, billing warning).
C4_QuotaOr429IsBillingEverywhere ==
    ( /\ last_call.returned
      /\ last_call.outcome.kind = "raise"
      /\ \/ Contains(last_call.outcome.exc.msg, KwInsufficientQuota)
         \/ last_call.outcome.exc.status_code = {429} )
    => (last_call.result[1] = None /\ last_call.result[2] \in BillingTexts)

\* C4 (amended): an error whose message contains "insufficient_quota" gives
\* (None, billing warning) for every variant; status code 429 does so for the
\* OpenAI variant, while Gemini and Anthropic classify by the message alone, so
\* that there a 429 with a keyword-free message gives (None, None).
C4_QuotaEverywhere429ForOpenAI ==
    (last_call.returned /\ last_call.outcome.kind = "raise") =>
        LET e == last_call.outcome.exc
        IN  /\ ( \/ Contains(e.msg, KwInsufficientQuota)
                 \/ (provider_name = "openai" /\ e.status_code = {429}) )
               => last_call.result = <<None, BillingTextOf(provider_name)>>
            /\ (provider_name # "openai" /\ e.status_code = {429} /\ NoKeyword(provider_name, e))
               => last_call.result = <<None, None>>

C4_Witness ==
    /\ last_call.returned
    /\ provider_name = "openai"
    /\ last_call.outcome.kind = "raise"
    /\ last_call.outcome.exc.status_code = {429}
    /\ NoKeyword("openai", last_call.outcome.exc)
    /\ last_call.result = <<None, OpenAIBillingText>>

\* C5 (as claimed): for every backend variant, a vendor error with no billing
\* keyword in its message and no recognised status code gives (None, None),
\* nothing is shown, and the path is recorded as last_processed_path.
C5_NoKeywordNoStatusIsSilent ==
    ( /\ Attempted
      /\ last_call.outcome.kind = "raise"
      /\ NoKeyword(provider_name, last_call.outcome.exc)
      /\ NoStatus(last_call.outcome.exc) )
    => ( /\ last_call.result = <<None, None>>
         /\ last_call.shows = <<>>
         /\ last_processed_path = last_call.path )

SilentSignature ==
    /\ Attempted
    /\ last_call.outcome.kind = "raise"
    /\ NoKeyword(provider_name, last_call.outcome.exc)
    /\ NoStatus(last_call.outcome.exc)
    /\ provider_name = "openai" => NoBillingType(last_call.outcome.exc)

C5_SilentAndRecorded ==
    SilentSignature
    => ( /\ last_call.result = <<None, None>>
         /\ last_call.shows = <<>>
         /\ last_processed_path = last_call.path )

C5_NoRetryOfSamePath ==
    (SilentSignature /\ last_call' # last_call /\ last_call'.path = last_call.path)
        => (~last_call'.backend /\ backend_calls' = backend_calls)

\* C5 (amended): a vendor error with no billing keyword in its message, no
\* recognised status code and, for the OpenAI variant, no "quota" or "billing"
\* in its exception type name gives (None, None); nothing is shown, the path is
\* recorded as last_processed_path, and a directly following call for the same
\* path does not call the backend.
C5_SilentFailureIsNotRetried == [](C5_SilentAndRecorded) /\ [][C5_NoRetryOfSamePath]_vars

C5_Witness ==
    /\ SilentSignature
    /\ last_call.result = <<None, None>>
    /\ queue # <<>>
    /\ PathOf(Head(queue).name) = last_call.path

\* C6: a processing attempt makes at most one show request, fixed by the
\* backend's result: a billing warning is shown as a warning for 10 seconds;
\* otherwise a non-empty answer is shown normally for 5 seconds; otherwise
\* nothing is shown. A call that never reached the backend shows nothing.
C6_OneShowPerAttempt ==
    /\ Len(last_call.shows) <= 1
    /\ (last_call.returned /\ ~last_call.backend) => last_call.shows = <<>>
    /\ Attempted =>
        LET answer == last_call.result[1]
            billing_warning == last_call.result[2]
        IN  IF billing_warning # None
            THEN last_call.shows =
                    <<[text |-> billing_warning, duration |-> 10, is_warning |-> TRUE]>>
            ELSE IF answer # None /\ answer # <<>>
            THEN last_call.shows =
                    <<[text |-> answer, duration |-> 5, is_warning |-> FALSE]>>
            ELSE last_call.shows = <<>>

C6_Witness ==
    /\ Attempted
    /\ last_call.result[2] \in BillingTexts
    /\ last_call.shows = <<[text |-> last_call.result[2], duration |-> 10, is_warning |-> TRUE]>>

\* C7: at most one screenshot is in flight: while an accepted event's handling
\* (its sleep, its process_screenshot call, the backend call) has not returned,
\* no other has started, whatever events are waiting.
C7_AtMostOneInFlight ==
    /\ in_flight \in {0, 1}
    /\ in_flight = 0 <=> watch_pc = "idle"

C7_Witness ==
    /\ in_flight = 1
    /\ watch_pc = "calling"
    /\ queue # <<>>
    /\ Qualifies(Head(queue))

FatalConfig ==
    /\ main_pc # "start"
    /\ \/ Falsy(api_key)
       \/ provider_name \notin {"gemini", "openai", "anthropic"}
       \/ ~dir_exists

\* C8: with a fatal configuration error (no credential for the selected
\* backend, an unknown backend name, a missing screenshot directory) the watch
\* is never started and no vendor call is made: the process gets no further
\* than the check that finds the error, and that check exits with status 1.
C8_FatalConfigExitsBeforeWatch ==
    FatalConfig =>
        /\ ~observer_started
        /\ backend_calls = 0
        /\ events_seen = 0
        /\ main_pc \in {"constructed", "exited"}
        /\ main_pc = "exited" => exit_code = <<1>>
        /\ (Falsy(api_key) \/ provider_name \notin {"gemini", "openai", "anthropic"})
            => main_pc = "exited"

C8_Witness ==
    /\ main_pc = "exited"
    /\ exit_code = <<1>>
    /\ ~dir_exists
    /\ ~Falsy(api_key)

\* C9 (as claimed): when the screenshot cannot be opened, or the vendor call
\* fails without a billing signature, nothing is shown for that screenshot and
\* the watch thread is idle again.
C9_TransientErrorShowsNothing ==
    ( /\ Attempted
      /\ \/ last_call.outcome.kind = "open_error"
         \/ /\ last_call.outcome.kind = "raise"
            /\ NoKeyword(provider_name, last_call.outcome.exc)
            /\ NoStatus(last_call.outcome.exc)
            /\ NoBillingType(last_call.outcome.exc) )
    => (last_call.shows = <<>> /\ watch_pc = "idle")

ImageEntries ==
    {i \in 1..Len(listing) : listing[i].is_file /\ HasAllowedExtension(listing[i].name)}

IsNewestImage(value) ==
    \E i \in ImageEntries :
        /\ value = PathOf(listing[i].name)
        /\ \A j \in ImageEntries : listing[j].mtime <= listing[i].mtime

\* C10 (as claimed): get_latest_screenshot never raises; it returns None when
\* the directory is absent or holds no image file, and otherwise the path of an
\* image file with the greatest modification time.
C10_LatestOrNone ==
    latest.called =>
        /\ ~latest.raised
        /\ IF ~dir_exists \/ ImageEntries = {}
           THEN latest.value = None
           ELSE IsNewestImage(latest.value)

\* C10 (amended): get_latest_screenshot never raises; it returns None when the
\* directory is absent, holds no image file, or listing it or reading a
\* modification time fails, and otherwise the path of an image file with the
\* greatest modification time.
C10_LatestOrNoneUnlessIoFails ==
    latest.called =>
        /\ ~latest.raised
        /\ IF ~dir_exists \/ ImageEntries = {} \/ io_error # "none"
           THEN latest.value = None
           ELSE IsNewestImage(latest.value)

C10_Witness ==
    /\ latest.called
    /\ io_error = "none"
    /\ Cardinality(ImageEntries) = 2
    /\ latest.value # None
    /\ \E i \in 1..Len(listing) :
          /\ i \notin ImageEntries
          /\ \A j \in ImageEntries : listing[j].mtime <= listing[i].mtime
    /\ \E i \in ImageEntries, j \in ImageEntries :
          i < j /\ listing[i].mtime < listing[j].mtime

\* While root is unset nothing has been posted to the UI thread and the window
\* is hidden.
C11_NothingPostedNothingShown ==
    ~root => (timers = <<>> /\ ~visible)

\* A backend call that returns while root is unset leaves the timer queue and
\* the window as they were, and the watch thread is idle again.
C11_ShowIsNoOp ==
    (~root /\ watch_pc = "calling" /\ watch_pc' = "idle")
        => ( /\ last_call'.returned
             /\ timers' = timers
             /\ UNCHANGED window_vars
             /\ in_flight' = 0 )

\* C11: while the overlay window is not ready (root unset), a show_answer call
\* is a no-op: it returns, posts nothing to the UI thread and leaves the
\* overlay hidden, and the watch thread goes on to later events.
C11_ShowWithoutWindowIsNoOp ==
    [](C11_NothingPostedNothingShown) /\ [][C11_ShowIsNoOp]_vars

C11_Witness ==
    /\ ~root
    /\ Attempted
    /\ last_call.shows # <<>>
    /\ timers = <<>>
    /\ ~visible
    /\ watch_pc = "sleeping"
    /\ cur_path # last_call.path

\* C12 (as claimed): whenever the overlay window is visible, click-through is
\* enabled on it.
C12_VisibleImpliesClickThrough ==
    visible => click_through

\* The process has left through the shutdown handler.
ShutDown == main_pc = "exited" /\ exit_code = <<0>>

\* The watch thread has been joined.
Joined == main_pc \in {"joined", "destroyed"} \/ ShutDown

\* C13 (as claimed): when the process exits after the shutdown signal, the
\* overlay window it created has been destroyed.
C13_WindowDestroyedBeforeExit ==
    (ShutDown /\ root) => destroyed

\* From the join on, the watch has been stopped and no handler is running;
\* destroy has been called once from the destroy step on and never before, the
\* window is torn down only after that call, and a process that shut down
\* called it.
C13_JoinedThenDestroyCalledOnce ==
    /\ Joined => (observer_stopped /\ watch_pc = "idle" /\ in_flight = 0)
    /\ destroy_calls = (IF main_pc = "destroyed" \/ ShutDown THEN 1 ELSE 0)
    /\ destroyed => (destroy_calls = 1 /\ root)

\* The shutdown handler's steps come in the order stop, join, destroy, exit,
\* and from the join on no process_screenshot call is made and no show request
\* is posted.
C13_StepsInOrder ==
    /\ main_pc' # main_pc =>
          <<main_pc, main_pc'>> \in
              {<<"start", "constructed">>, <<"start", "exited">>,
               <<"constructed", "watching">>, <<"constructed", "exited">>,
               <<"watching", "stopping">>, <<"stopping", "joined">>,
               <<"joined", "destroyed">>, <<"destroyed", "exited">>}
    /\ (main_pc = "destroyed" /\ main_pc' = "exited") => exit_code' = <<0>>
    /\ Joined =>
          /\ UNCHANGED <<watch_vars, pipe_vars>>
          /\ \A i \in 1..Len(timers') : timers'[i].cb = "_show" => timers'[i] \in Range(timers)

\* C13 (amended): on the shutdown signal the watch is stopped, the watch thread
\* is joined (no process_screenshot call is in flight, no further show request
\* is posted), the overlay's destroy is called, and then the process exits with
\* status 0; destroy is called exactly once before the exit. The call only
\* schedules the teardown on the UI thread, so the window is torn down at most
\* once and not necessarily before the process exits.
C13_ShutdownOrderDestroyRequestedOnce ==
    [](C13_JoinedThenDestroyCalledOnce) /\ [][C13_StepsInOrder]_vars

C13_Witness ==
    /\ ShutDown
    /\ root
    /\ destroy_calls = 1
    /\ destroyed
    /\ backend_calls > 0
    /\ last_call.shows # <<>>

PendingShow == \E i \in 1..Len(timers) : timers[i].cb = "_show"

\* A visible overlay has a dismissal pending, so with nothing pending it is
\* hidden.
C14_VisibleHasDismissalPending ==
    visible => \E i \in 1..Len(timers) : timers[i].cb \in {"_hide_with_click_through", "_hide"}

\* The UI thread running _hide on a hidden overlay leaves it hidden.
C14_HideIsIdempotent ==
    (~visible /\ timers # <<>> /\ Head(timers).cb = "_hide" /\ timers' = Tail(timers))
        => ~visible'

\* C14: with the UI thread running, an accepted show request is followed by
\* the overlay being hidden: a pending or visible show leads to the hidden
\* state, and once the requests have stopped the overlay is hidden for good;
\* hiding a hidden overlay leaves it hidden.
C14_ShowIsEventuallyDismissed ==
    /\ [](C14_VisibleHasDismissalPending)
    /\ [][C14_HideIsIdempotent]_vars
    /\ ((PendingShow \/ visible) ~> (~visible /\ ~PendingShow))
    /\ <>[](~visible /\ timers = <<>>)

C14_Witness ==
    /\ Len(api_hist) = 2
    /\ api_hist[1].op = "show" /\ api_hist[1].accepted
    /\ api_hist[2].op = "hide" /\ api_hist[2].accepted
    /\ api_hist[1].age - api_hist[2].age = api_hist[1].duration * Second
    /\ ~visible
    /\ label_text = api_hist[1].text
    /\ timers = <<>>

\* last_processed_path is the path of the most recent call that passed the
\* duplicate check, and None before the first.
C15_LastIsMostRecentCalled ==
    /\ backend_calls = Len(call_log)
    /\ last_processed_path = (IF call_log = <<>> THEN None ELSE call_log[Len(call_log)])

\* A process_screenshot call is suppressed exactly when its path is the
\* immediately previous one: any other path is handed to the backend, whether
\* or not it was handed to it at some earlier time.
C15_OnlyPreviousSuppresses ==
    (watch_pc = "sleeping" /\ watch_pc' # "sleeping") =>
        IF cur_path = last_processed_path
        THEN call_log' = call_log /\ backend_calls' = backend_calls
        ELSE call_log' = Append(call_log, cur_path) /\ backend_calls' = backend_calls + 1

\* C15: duplicate suppression remembers only the immediately previous path:
\* a path other than last_processed_path is handed to the backend even when it
\* was processed before (A, B, A makes three backend calls), and
\* last_processed_path is always the path of the most recent call that passed
\* the duplicate check.
C15_OnlyPreviousPathRemembered ==
    [](C15_LastIsMostRecentCalled) /\ [][C15_OnlyPreviousSuppresses]_vars

C15_Witness ==
    /\ call_log = <<PathOf(NameA), PathOf(NameCredit), PathOf(NameA)>>
    /\ backend_calls = 3
    /\ last_processed_path = PathOf(NameA)

====
